---- MODULE Spec2Model ----
(***************************************************************************)
(* Snapshot span management and navigation of Tab (src/src/tab.ts) and the *)
(* snapshot navigation tools (src/src/tools/snapshotNavigation.ts).        *)
(*                                                                         *)
(* A string is the sequence of its runs: <<c, n>> stands for n >= 1 copies *)
(* of the character c, and neighbouring runs differ in their character, so *)
(* that every string has one representation and string equality is         *)
(* equality of the sequences.  split, trim, substring and concatenation    *)
(* are computed character by character on this representation.             *)
(***************************************************************************)
EXTENDS Integers, Sequences, FiniteSets, TLC

(***************************************************************************)
(* Bounds of the model.                                                    *)
(***************************************************************************)
\* longest text the snapshot producer yields, in lines
MaxLines == 2
\* modal states the page raises in one run
MaxModals == 2
\* captureSnapshot / waitForCompletion calls alive at a time
MaxCalls == 1

(***************************************************************************)
(* Program constants.                                                      *)
(***************************************************************************)
\* tab.ts:51,60  default span size
DefaultSpanSize == 2000
\* tab.ts:201  smallest span size setSnapshotSpanSize accepts
MinSpanSize == 100
\* tab.ts:166  characters reserved for the truncation indicator
TruncationReserve == 50
\* tab.ts:144,201  sentinel: the whole snapshot is one span
WholeSnapshot == -1
\* tab.ts:283  lines shown around the target line when the caller gives none
DefaultContextLines == 3

(***************************************************************************)
(* Strings.                                                                *)
(***************************************************************************)
NL == "\n"

\* the string of n copies of the character c
Rep(c, n) == IF n <= 0 THEN <<>> ELSE << <<c, n>> >>

Max(a, b) == IF a >= b THEN a ELSE b

Min(a, b) == IF a <= b THEN a ELSE b

\* String.prototype.length: the run lengths added up, half by half
RECURSIVE Length(_)
Length(s) ==
    IF Len(s) = 0 THEN 0
    ELSE IF Len(s) = 1 THEN s[1][2]
    ELSE LET h == Len(s) \div 2
         IN  Length(SubSeq(s, 1, h)) + Length(SubSeq(s, h + 1, Len(s)))

\* s + t
Concat(s, t) ==
    IF Len(s) = 0 THEN t
    ELSE IF Len(t) = 0 THEN s
    ELSE IF s[Len(s)][1] = t[1][1]
    THEN SubSeq(s, 1, Len(s) - 1) \o << <<t[1][1], s[Len(s)][2] + t[1][2]>> >> \o Tail(t)
    ELSE s \o t

\* the string spelled by a sequence of characters
RECURSIVE Chars(_)
Chars(cs) ==
    IF Len(cs) = 0 THEN <<>>
    ELSE IF Len(cs) = 1 THEN Rep(cs[1], 1)
    ELSE LET h == Len(cs) \div 2
         IN  Concat(Chars(SubSeq(cs, 1, h)), Chars(SubSeq(cs, h + 1, Len(cs))))

\* the first k characters of s: the runs before the one that holds character
\* k, and the part of that run up to it
Prefix(s, k) ==
    IF k <= 0 THEN <<>>
    ELSE IF k >= Length(s) THEN s
    ELSE LET j == CHOOSE j \in 1..Len(s) :
                      Length(SubSeq(s, 1, j - 1)) < k /\ k <= Length(SubSeq(s, 1, j))
         IN  SubSeq(s, 1, j - 1) \o << <<s[j][1], k - Length(SubSeq(s, 1, j - 1))>> >>

\* s without its first k characters
Drop(s, k) ==
    IF k <= 0 THEN s
    ELSE IF k >= Length(s) THEN <<>>
    ELSE LET j == CHOOSE j \in 1..Len(s) :
                      Length(SubSeq(s, 1, j - 1)) <= k /\ k < Length(SubSeq(s, 1, j))
         IN  << <<s[j][1], Length(SubSeq(s, 1, j)) - k>> >> \o SubSeq(s, j + 1, Len(s))

\* the characters String.prototype.trim / trimEnd remove
IsSpace(c) == c \in {" ", "\n", "\t", "\r"}

\* number of runs of white space at the end of s
TrailingSpaces(s) ==
    Cardinality({i \in 1..Len(s) : \A j \in i..Len(s) : IsSpace(s[j][1])})

\* number of runs of white space at the start of s
LeadingSpaces(s) ==
    Cardinality({i \in 1..Len(s) : \A j \in 1..i : IsSpace(s[j][1])})

\* String.prototype.trimEnd
TrimEnd(s) == SubSeq(s, 1, Len(s) - TrailingSpaces(s))

\* String.prototype.trim
Trim(s) == SubSeq(s, LeadingSpaces(s) + 1, Len(s) - TrailingSpaces(s))

\* String.prototype.substring(a, b): arguments below 0 count as 0, above the
\* length as the length, and are swapped when a > b
Substring(s, a, b) ==
    LET ca == Max(0, Min(a, Length(s)))
        cb == Max(0, Min(b, Length(s)))
    IN  Prefix(Drop(s, Min(ca, cb)), Max(ca, cb) - Min(ca, cb))

\* String.prototype.split('\n'): always at least one piece.  A run of n
\* newlines separates n + 1 pieces, any other run is one piece, and the pieces
\* of s are those of its halves with the last piece of the first half and the
\* first piece of the second half put together
RECURSIVE Split(_)
Split(s) ==
    IF Len(s) = 0 THEN << <<>> >>
    ELSE IF Len(s) = 1
    THEN IF s[1][1] = NL THEN [i \in 1..(s[1][2] + 1) |-> <<>>] ELSE <<s>>
    ELSE LET h     == Len(s) \div 2
             left  == Split(SubSeq(s, 1, h))
             right == Split(SubSeq(s, h + 1, Len(s)))
         IN  SubSeq(left, 1, Len(left) - 1)
             \o <<left[Len(left)] \o right[1]>>
             \o Tail(right)

\* Array.prototype.join('\n')
RECURSIVE Join(_)
Join(ls) ==
    IF Len(ls) = 0 THEN <<>>
    ELSE IF Len(ls) = 1 THEN ls[1]
    ELSE Concat(Concat(ls[1], Rep(NL, 1)), Join(Tail(ls)))

\* decimal rendering of a number inside a template string
RECURSIVE Digits(_)
Digits(n) ==
    LET d == <<"0", "1", "2", "3", "4", "5", "6", "7", "8", "9">>
    IN  IF n < 10 THEN Rep(d[n + 1], 1)
        ELSE Concat(Digits(n \div 10), Rep(d[(n % 10) + 1], 1))

\* `... [line truncated, originally with ${originalLength} chars]\n`
TruncationMarker(originalLength) ==
    Concat(Concat(Chars(<< ".", ".", ".", " ", "[", "l", "i", "n", "e", " ",
                           "t", "r", "u", "n", "c", "a", "t", "e", "d", ",", " ",
                           "o", "r", "i", "g", "i", "n", "a", "l", "l", "y", " ",
                           "w", "i", "t", "h", " " >>),
                  Digits(originalLength)),
           Chars(<< " ", "c", "h", "a", "r", "s", "]", NL >>))

(***************************************************************************)
(* Tab._splitSnapshotIntoSpans: the spans of a snapshot, with the global   *)
(* lines and the span line map it stores on the way.                       *)
(***************************************************************************)
\* the line as it is added to a span: over-long lines are truncated
LineToAdd(line, size) ==
    IF Length(line) + 1 > size
    THEN Concat(Substring(line, 0, size - TruncationReserve),
                TruncationMarker(Length(line)))
    ELSE Concat(line, Rep(NL, 1))

\* the loop body closing a span only once the span itself is over the budget
SplitStepClosesLate(acc, line, i, size) ==
    LET lineToAdd == LineToAdd(line, size)
    IN  IF acc.currentLength > size /\ Length(acc.currentSpan) > 0
        THEN [spans |-> Append(acc.spans, TrimEnd(acc.currentSpan)),
              map |-> Append(acc.map, [startLine |-> acc.spanStartLineIndex + 1,
                                       endLine |-> i]),
              currentSpan |-> lineToAdd,
              currentLength |-> Length(lineToAdd),
              spanStartLineIndex |-> i]
        ELSE [acc EXCEPT !.currentSpan = Concat(acc.currentSpan, lineToAdd),
                         !.currentLength = acc.currentLength + Length(lineToAdd)]

\* one iteration of the loop over the lines (i is 0-based, as in the code)
SplitStep(acc, line, i, size) ==
    LET lineToAdd == LineToAdd(line, size)
    IN  IF acc.currentLength + Length(lineToAdd) > size /\ Length(acc.currentSpan) > 0
        THEN [spans |-> Append(acc.spans, TrimEnd(acc.currentSpan)),
              map |-> Append(acc.map, [startLine |-> acc.spanStartLineIndex + 1,
                                       endLine |-> i]),
              currentSpan |-> lineToAdd,
              currentLength |-> Length(lineToAdd),
              spanStartLineIndex |-> i]
        ELSE [acc EXCEPT !.currentSpan = Concat(acc.currentSpan, lineToAdd),
                         !.currentLength = acc.currentLength + Length(lineToAdd)]

RECURSIVE SplitLoop(_, _, _, _)
SplitLoop(acc, lines, i, size) ==
    IF i >= Len(lines) THEN acc
    ELSE SplitLoop(SplitStep(acc, lines[i + 1], i, size), lines, i + 1, size)

\* the last span recorded with its 0-based start index
SplitFlushZeroBased(acc, lines) ==
    IF Length(Trim(acc.currentSpan)) > 0
    THEN [spans |-> Append(acc.spans, TrimEnd(acc.currentSpan)),
          map |-> Append(acc.map, [startLine |-> acc.spanStartLineIndex,
                                   endLine |-> Len(lines)])]
    ELSE [spans |-> acc.spans, map |-> acc.map]

\* the last span is added only if it has content
SplitFlush(acc, lines) ==
    IF Length(Trim(acc.currentSpan)) > 0
    THEN [spans |-> Append(acc.spans, TrimEnd(acc.currentSpan)),
          map |-> Append(acc.map, [startLine |-> acc.spanStartLineIndex + 1,
                                   endLine |-> Len(lines)])]
    ELSE [spans |-> acc.spans, map |-> acc.map]

splitSnapshotIntoSpans(snapshot, size) ==
    LET lines == Split(snapshot)
    IN  IF size = WholeSnapshot
        THEN [spans |-> <<snapshot>>,
              globalLines |-> lines,
              map |-> <<[startLine |-> 1, endLine |-> Len(lines)]>>]
        ELSE LET acc0 == [spans |-> <<>>, map |-> <<>>, currentSpan |-> <<>>,
                          currentLength |-> 0, spanStartLineIndex |-> 0]
                 out  == SplitFlush(SplitLoop(acc0, lines, 0, size), lines)
             IN  [spans |-> IF Len(out.spans) > 0 THEN out.spans ELSE << <<>> >>,
                  globalLines |-> lines,
                  map |-> out.map]

(***************************************************************************)
(* What the collaborators supply.                                          *)
(***************************************************************************)
\* lines the snapshot producer builds its texts from: a line that fills more
\* than half of the smallest span, a whitespace-only line and a line longer
\* than the smallest span; the text of no lines is the empty text
A60 == Rep("a", 60)

W45 == Rep(" ", 45)

L120 == Rep("c", 120)

Vocabulary == {A60, W45, L120}

RECURSIVE LineSeqs(_)
LineSeqs(n) ==
    IF n = 0 THEN {<<>>}
    ELSE LET shorter == LineSeqs(n - 1)
         IN  shorter \cup {Append(ls, l) : ls \in {x \in shorter : Len(x) = n - 1},
                                            l \in Vocabulary}

\* the raw texts page._snapshotForAI() may yield
Texts == {Join(ls) : ls \in LineSeqs(MaxLines)}

\* context.config.spanSize as the configuration may hold it (0: not set)
ConfigSpanSizes == {0, 50}

\* the sizes passed to setSnapshotSpanSize
RequestedSpanSizes == {WholeSnapshot, 50}

\* context.config.spanSize || 2000
ConfiguredSpanSize(c) == IF c = 0 THEN DefaultSpanSize ELSE c

\* size === -1 ? -1 : Math.max(100, size)
ClampSpanSize(size) == IF size = WholeSnapshot THEN WholeSnapshot ELSE Max(MinSpanSize, size)

\* the span sizes a tab can be in
SpanSizes ==
    {ConfiguredSpanSize(c) : c \in ConfigSpanSizes} \cup {ClampSpanSize(z) : z \in RequestedSpanSizes}

\* _splitSnapshotIntoSpans of every text under every span size, computed once
SplitTable ==
    LET table == [text \in Texts, size \in SpanSizes |-> splitSnapshotIntoSpans(text, size)]
    IN  IF table = table THEN table ELSE table

\* the indices passed to navigateToSpan
RequestedSpanIndices == {0 - 1} \cup 1..MaxLines

(***************************************************************************)
(* State of a Tab.                                                         *)
(***************************************************************************)
VARIABLES
    fullSnapshot,         \* _fullSnapshot
    snapshotSpans,        \* _snapshotSpans
    currentSpanIndex,     \* _currentSpanIndex
    snapshotSpanSize,     \* _snapshotSpanSize
    globalLines,          \* _globalLines
    spanToGlobalLineMap,  \* _spanToGlobalLineMap
    modalStates,          \* _modalStates, each modal state an identity
    nextModal,            \* the identity of the next modal state object
    races,                \* the captureSnapshot / waitForCompletion calls made
    closed,               \* the page has fired 'close'
    last                  \* the last operation, its arguments and what it returned

vars == <<fullSnapshot, snapshotSpans, currentSpanIndex, snapshotSpanSize,
          globalLines, spanToGlobalLineMap, modalStates, nextModal, races,
          closed, last>>

snapshotVars == <<fullSnapshot, snapshotSpans, currentSpanIndex,
                  globalLines, spanToGlobalLineMap>>

\* Tab constructor: field initialisers and the configured span size
Init ==
    /\ fullSnapshot = <<>>
    /\ snapshotSpans = <<>>
    /\ currentSpanIndex = 0
    /\ snapshotSpanSize \in {ConfiguredSpanSize(c) : c \in ConfigSpanSizes}
    /\ globalLines = <<>>
    /\ spanToGlobalLineMap = <<>>
    /\ modalStates = <<>>
    /\ nextModal = 1
    /\ races = <<>>
    /\ closed = FALSE
    /\ last = [op |-> "new"]

\* a call is live while something of it can still be observed: its caller
\* awaits it, its listener is registered, or its action has yet to store the
\* snapshot it asked for (an action past that point only pushes to a result
\* array its caller has already joined)
Live(r) == r.outcome = "pending" \/ r.listener \/ r.pc = "snapshot"

\* the calls still alive; the caller's next operation forgets the finished ones
LiveCalls == SelectSeq(races, Live)

\* the caller issues one tool call at a time: no call of its is still awaited
Idle == \A i \in DOMAIN races : races[i].outcome # "pending"

(***************************************************************************)
(* Span navigation.                                                        *)
(***************************************************************************)
\* navigateToSpan storing the requested index instead of the clamped one
navigateToSpanCursorUnclamped(index) ==
    IF Len(snapshotSpans) = 0
    THEN [success |-> FALSE, span |-> <<>>, spanIndex |-> 0, totalSpans |-> 0,
          cursor |-> currentSpanIndex]
    ELSE LET clampedIndex == Max(0, Min(index, Len(snapshotSpans) - 1))
         IN  [success |-> TRUE, span |-> snapshotSpans[clampedIndex + 1],
              spanIndex |-> clampedIndex, totalSpans |-> Len(snapshotSpans),
              cursor |-> index]

\* navigateToSpan reporting the span number shown to the user (1-based)
navigateToSpanOneBased(index) ==
    IF Len(snapshotSpans) = 0
    THEN [success |-> FALSE, span |-> <<>>, spanIndex |-> 0, totalSpans |-> 0,
          cursor |-> currentSpanIndex]
    ELSE LET clampedIndex == Max(0, Min(index, Len(snapshotSpans) - 1))
         IN  [success |-> TRUE, span |-> snapshotSpans[clampedIndex + 1],
              spanIndex |-> clampedIndex + 1, totalSpans |-> Len(snapshotSpans),
              cursor |-> clampedIndex]

\* Tab.navigateToSpan: the returned record and the cursor it leaves
navigateToSpan(index) ==
    IF Len(snapshotSpans) = 0
    THEN [success |-> FALSE, span |-> <<>>, spanIndex |-> 0, totalSpans |-> 0,
          cursor |-> currentSpanIndex]
    ELSE LET clampedIndex == Max(0, Min(index, Len(snapshotSpans) - 1))
         IN  [success |-> TRUE, span |-> snapshotSpans[clampedIndex + 1],
              spanIndex |-> clampedIndex, totalSpans |-> Len(snapshotSpans),
              cursor |-> clampedIndex]

NavigateCall(op, index) ==
    LET r == navigateToSpan(index)
    IN  /\ Idle
        /\ currentSpanIndex' = r.cursor
        /\ last' = [op |-> op, arg |-> index, success |-> r.success, span |-> r.span,
                    spanIndex |-> r.spanIndex, totalSpans |-> r.totalSpans]
        /\ races' = LiveCalls
        /\ UNCHANGED <<fullSnapshot, snapshotSpans, snapshotSpanSize, globalLines,
                       spanToGlobalLineMap, modalStates, nextModal, closed>>

NavigateToSpan == \E i \in RequestedSpanIndices : NavigateCall("navigateToSpan", i)

NavigateToFirstSpan == NavigateCall("navigateToFirstSpan", 0)

NavigateToLastSpan == NavigateCall("navigateToLastSpan", Len(snapshotSpans) - 1)

\* navigateToNextSpan wrapping around to the first span
NavigateToNextSpanWraps ==
    NavigateCall("navigateToNextSpan",
                 IF currentSpanIndex + 1 >= Len(snapshotSpans) THEN 0 ELSE currentSpanIndex + 1)

NavigateToNextSpan == NavigateCall("navigateToNextSpan", currentSpanIndex + 1)

NavigateToPrevSpan == NavigateCall("navigateToPrevSpan", currentSpanIndex - 1)

\* Tab.setSnapshotSpanSize
SetSnapshotSpanSize ==
    \E size \in RequestedSpanSizes :
        LET newSize == ClampSpanSize(size)
            split   == SplitTable[fullSnapshot, newSize]
        IN  /\ Idle
            /\ snapshotSpanSize' = newSize
            /\ IF Length(fullSnapshot) > 0
               THEN /\ snapshotSpans' = split.spans
                    /\ globalLines' = split.globalLines
                    /\ spanToGlobalLineMap' = split.map
                    /\ currentSpanIndex' = Min(currentSpanIndex, Len(split.spans) - 1)
               ELSE UNCHANGED <<snapshotSpans, globalLines, spanToGlobalLineMap,
                                currentSpanIndex>>
            /\ last' = [op |-> "setSnapshotSpanSize", arg |-> size]
            /\ races' = LiveCalls
            /\ UNCHANGED <<fullSnapshot, modalStates, nextModal, closed>>

(***************************************************************************)
(* Reset of the snapshot state.                                            *)
(***************************************************************************)
\* a reset that leaves the cursor where it was
resetSnapshotKeepsCursor ==
    /\ fullSnapshot' = <<>>
    /\ snapshotSpans' = <<>>
    /\ currentSpanIndex' = currentSpanIndex
    /\ globalLines' = <<>>
    /\ spanToGlobalLineMap' = <<>>

\* Tab._resetSnapshot, as _clearCollectedArtifacts calls it
resetSnapshot ==
    /\ fullSnapshot' = <<>>
    /\ snapshotSpans' = <<>>
    /\ currentSpanIndex' = 0
    /\ globalLines' = <<>>
    /\ spanToGlobalLineMap' = <<>>

\* navigate that empties the modal queue along with the artifacts
NavigateClearsModalStates ==
    /\ Idle
    /\ resetSnapshot
    /\ modalStates' = <<>>
    /\ last' = [op |-> "navigate"]
    /\ races' = LiveCalls
    /\ UNCHANGED <<snapshotSpanSize, nextModal, closed>>

\* Tab.navigate: the artifacts are cleared before the page is asked to load
Navigate ==
    /\ Idle
    /\ resetSnapshot
    /\ last' = [op |-> "navigate"]
    /\ races' = LiveCalls
    /\ UNCHANGED <<snapshotSpanSize, modalStates, nextModal, closed>>

\* Tab._onClose, the page's 'close' event
OnClose ==
    /\ ~closed
    /\ resetSnapshot
    /\ closed' = TRUE
    /\ last' = [op |-> "close"]
    /\ UNCHANGED <<snapshotSpanSize, modalStates, nextModal, races>>

(***************************************************************************)
(* Modal states.                                                           *)
(***************************************************************************)
\* what emit(TabEvents.modalState, m) does to one call: its once-listener is
\* removed and resolves the race's promise; a race not yet settled settles
\* with m and its caller resumes with the result array as it is
Emit(r, m) ==
    IF ~r.listener THEN r
    ELSE IF r.outcome = "pending"
    THEN [r EXCEPT !.listener = FALSE, !.outcome = "modal", !.modal = m,
                   !.returned = r.result]
    ELSE [r EXCEPT !.listener = FALSE]

\* Tab.setModalState, reached from the page's 'dialog' and 'filechooser' events
SetModalState ==
    /\ ~closed
    /\ nextModal <= MaxModals
    /\ modalStates' = Append(modalStates, nextModal)
    /\ nextModal' = nextModal + 1
    /\ races' = [i \in DOMAIN races |-> Emit(races[i], nextModal)]
    /\ last' = [op |-> "setModalState", arg |-> nextModal]
    /\ UNCHANGED <<snapshotVars, snapshotSpanSize, closed>>

\* clearModalState dropping the oldest entry, whichever is asked for
clearModalStateShift(queue, m) == Tail(queue)

\* Array.prototype.filter(state => state !== modalState)
clearModalState(queue, m) == SelectSeq(queue, LAMBDA state : state # m)

\* Tab.clearModalState, called by the tool that handles the modal state
ClearModalState ==
    \E m \in {modalStates[i] : i \in DOMAIN modalStates} :
        /\ Idle
        /\ modalStates' = clearModalState(modalStates, m)
        /\ last' = [op |-> "clearModalState", arg |-> m]
        /\ races' = LiveCalls
        /\ UNCHANGED <<snapshotVars, snapshotSpanSize, nextModal, closed>>

(***************************************************************************)
(* Tab._raceAgainstModalStates and its two callers.  A call is a record:   *)
(*   kind      "capture" (captureSnapshot) or "wait" (waitForCompletion)   *)
(*   pc        where the action is: "notStarted", "snapshot" (awaiting     *)
(*             _snapshotForAI), "title" (awaiting page.title), "running"   *)
(*             (awaiting the callback), "done" or "failed"                 *)
(*   listener  the race's modal-state listener is registered on the tab    *)
(*   outcome   "pending", or how the call came back: "modal" (the race     *)
(*             returned a modal state), "undefined" (the action finished   *)
(*             first), "rejected" (the action threw), "norace"             *)
(*             (captureSnapshot returned before racing)                    *)
(*   modal     the modal state the race returned, 0 if none                *)
(*   result    the sections pushed to captureSnapshot's result array       *)
(*   returned  the sections of the text captureSnapshot returned           *)
(***************************************************************************)
NewCall(kind) ==
    [kind |-> kind, pc |-> "notStarted", listener |-> FALSE, outcome |-> "pending",
     modal |-> 0, result |-> <<>>, returned |-> <<>>]

\* _raceAgainstModalStates that never registers its listener
raceWithoutListener(r, startPc) ==
    IF Len(modalStates) > 0
    THEN [r EXCEPT !.outcome = "modal", !.modal = modalStates[1]]
    ELSE [r EXCEPT !.pc = startPc]

\* _raceAgainstModalStates returning the newest queued modal state
raceNewestModal(r, startPc) ==
    IF Len(modalStates) > 0
    THEN [r EXCEPT !.outcome = "modal", !.modal = modalStates[Len(modalStates)]]
    ELSE [r EXCEPT !.listener = TRUE, !.pc = startPc]

\* _raceAgainstModalStates up to its first suspension, for a new call r whose
\* action starts at startPc
raceAgainstModalStates(r, startPc) ==
    IF Len(modalStates) > 0
    THEN [r EXCEPT !.outcome = "modal", !.modal = modalStates[1]]
    ELSE [r EXCEPT !.listener = TRUE, !.pc = startPc]

\* Tab.captureSnapshot up to its first suspension
captureSnapshot ==
    IF Len(modalStates) > 0
    THEN [NewCall("capture") EXCEPT !.outcome = "norace",
                                    !.result = <<"### Modal state">>,
                                    !.returned = <<"### Modal state">>]
    ELSE raceAgainstModalStates(NewCall("capture"), "snapshot")

CaptureSnapshot ==
    /\ Idle
    /\ ~closed
    /\ Len(LiveCalls) < MaxCalls
    /\ races' = Append(LiveCalls, captureSnapshot)
    /\ last' = [op |-> "captureSnapshot", call |-> Len(LiveCalls) + 1]
    /\ UNCHANGED <<snapshotVars, snapshotSpanSize, modalStates, nextModal, closed>>

\* Tab.waitForCompletion up to its first suspension
WaitForCompletion ==
    /\ Idle
    /\ ~closed
    /\ Len(LiveCalls) < MaxCalls
    /\ races' = Append(LiveCalls, raceAgainstModalStates(NewCall("wait"), "running"))
    /\ last' = [op |-> "waitForCompletion", call |-> Len(LiveCalls) + 1]
    /\ UNCHANGED <<snapshotVars, snapshotSpanSize, modalStates, nextModal, closed>>

\* reconciliation that always goes back to the first span
reconcileAlwaysFirst(previousSpans, previousCurrentSpanIndex, newSpans) == 0

\* the cursor after captureSnapshot has stored a new span list
reconcile(previousSpans, previousCurrentSpanIndex, newSpans) ==
    LET kept ==
            IF Len(previousSpans) = 0 THEN 0
            ELSE IF Len(newSpans) = Len(previousSpans)
                    /\ previousCurrentSpanIndex < Len(newSpans)
            THEN IF \A i \in 0..(Len(newSpans) - 1) :
                        i # previousCurrentSpanIndex => newSpans[i + 1] = previousSpans[i + 1]
                 THEN previousCurrentSpanIndex
                 ELSE 0
            ELSE 0
    IN  Min(kept, Len(newSpans) - 1)

\* the capture action resumes with the text of page._snapshotForAI(): it stores
\* the text if it differs, and suspends again on page.title()
SnapshotResolved ==
    \E c \in DOMAIN races, text \in Texts :
        LET split == SplitTable[text, snapshotSpanSize]
        IN  /\ ~closed
            /\ races[c].pc = "snapshot"
            /\ IF fullSnapshot # text
               THEN /\ fullSnapshot' = text
                    /\ snapshotSpans' = split.spans
                    /\ globalLines' = split.globalLines
                    /\ spanToGlobalLineMap' = split.map
                    /\ currentSpanIndex' =
                           reconcile(snapshotSpans, currentSpanIndex, split.spans)
               ELSE UNCHANGED snapshotVars
            /\ races' = [races EXCEPT ![c].pc = "title"]
            /\ last' = [op |-> "snapshotResolved", call |-> c,
                        changed |-> (fullSnapshot # text)]
            /\ UNCHANGED <<snapshotSpanSize, modalStates, nextModal, closed>>

\* then() that forgets to take the listener off
ActionThenKeepsListener(r) ==
    IF r.outcome = "pending"
    THEN [r EXCEPT !.pc = "done", !.outcome = "undefined", !.returned = r.result]
    ELSE [r EXCEPT !.pc = "done"]

\* action().then(...): the action has finished; the listener is taken off and
\* a race not yet settled returns undefined to its caller
ActionThen(r) ==
    IF r.outcome = "pending"
    THEN [r EXCEPT !.pc = "done", !.listener = FALSE, !.outcome = "undefined",
                   !.returned = r.result]
    ELSE [r EXCEPT !.pc = "done", !.listener = FALSE]

\* the capture action resumes with the page title, pushes the page state and ends
TitleResolved ==
    \E c \in DOMAIN races :
        /\ ~closed
        /\ races[c].pc = "title"
        /\ races' = [races EXCEPT ![c] =
               ActionThen([races[c] EXCEPT !.result = Append(@, "### Page state")])]
        /\ last' = [op |-> "titleResolved", call |-> c]
        /\ UNCHANGED <<snapshotVars, snapshotSpanSize, modalStates, nextModal, closed>>

\* the action of waitForCompletion ends
CompletionResolved ==
    \E c \in DOMAIN races :
        /\ ~closed
        /\ races[c].pc = "running"
        /\ races' = [races EXCEPT ![c] = ActionThen(races[c])]
        /\ last' = [op |-> "completionResolved", call |-> c]
        /\ UNCHANGED <<snapshotVars, snapshotSpanSize, modalStates, nextModal, closed>>

\* the action throws (a timeout, a closed page): then() is skipped, and a race
\* not yet settled rejects
ActionRejected ==
    \E c \in DOMAIN races :
        /\ races[c].pc \in {"snapshot", "title", "running"}
        /\ races' = [races EXCEPT ![c] =
               IF races[c].outcome = "pending"
               THEN [races[c] EXCEPT !.pc = "failed", !.outcome = "rejected"]
               ELSE [races[c] EXCEPT !.pc = "failed"]]
        /\ last' = [op |-> "actionRejected", call |-> c]
        /\ UNCHANGED <<snapshotVars, snapshotSpanSize, modalStates, nextModal, closed>>

(***************************************************************************)
(* Regular expressions, as far as the searches of the model need them.  A  *)
(* pattern is one character, one character followed by +, or empty (char   *)
(* is then the empty string, and the pattern matches at every index); the  *)
(* pattern "(" is not a regular expression.  A RegExp object is its        *)
(* pattern, its flags and its lastIndex.                                   *)
(***************************************************************************)
LowerCase == <<"a", "b", "c", "d", "e", "f", "g", "h", "i", "j", "k", "l", "m",
               "n", "o", "p", "q", "r", "s", "t", "u", "v", "w", "x", "y", "z">>

UpperCase == <<"A", "B", "C", "D", "E", "F", "G", "H", "I", "J", "K", "L", "M",
               "N", "O", "P", "Q", "R", "S", "T", "U", "V", "W", "X", "Y", "Z">>

\* the case folding of the i flag
Fold(c) ==
    IF \E i \in DOMAIN UpperCase : UpperCase[i] = c
    THEN LowerCase[CHOOSE i \in DOMAIN UpperCase : UpperCase[i] = c]
    ELSE c

\* the patterns searched for: a+, A+, c, the empty pattern and the malformed (
SearchPatterns ==
    {[char |-> "a", plus |-> TRUE], [char |-> "A", plus |-> TRUE],
     [char |-> "c", plus |-> FALSE], [char |-> "", plus |-> FALSE],
     [char |-> "(", plus |-> FALSE]}

\* the flags passed along: none (the empty sequence), "i", "g" and the
\* unknown flag "x"
SearchFlags == {<<>>, <<"i">>, <<"g">>, <<"x">>}

\* new RegExp(pattern, flags) throws a SyntaxError
RegExpThrows(pattern, flags) ==
    \/ pattern.char = "("
    \/ \E i \in DOMAIN flags : flags[i] \notin {"d", "g", "i", "m", "s", "u", "y"}
    \/ \E i, j \in DOMAIN flags : i # j /\ flags[i] = flags[j]

HasFlag(flags, f) == \E i \in DOMAIN flags : flags[i] = f

\* the character ch of a line matches the pattern's character
MatchesChar(pattern, flags, ch) ==
    \/ ch = pattern.char
    \/ HasFlag(flags, "i") /\ Fold(ch) = Fold(pattern.char)

\* number of characters of line before its run j
RunStart(line, j) == Length(SubSeq(line, 1, j - 1))

\* RegExp.prototype.test(line) of a regular expression with this lastIndex:
\* whether it matches, and the lastIndex it is left with.  With the g flag
\* the search starts at lastIndex, a match moves lastIndex to its end and a
\* failure sets it back to 0; without it lastIndex is neither read nor written
RegExpTest(pattern, flags, lastIndex, line) ==
    LET global  == HasFlag(flags, "g")
        from    == IF global THEN lastIndex ELSE 0
        hits    == {j \in DOMAIN line :
                        /\ MatchesChar(pattern, flags, line[j][1])
                        /\ RunStart(line, j) + line[j][2] > from}
        first   == CHOOSE j \in hits : \A k \in hits : j <= k
        start   == Max(from, RunStart(line, first))
        lastRun == CHOOSE k \in first..Len(line) :
                       /\ \A m \in first..k : MatchesChar(pattern, flags, line[m][1])
                       /\ k < Len(line) => ~MatchesChar(pattern, flags, line[k + 1][1])
        end     == IF pattern.plus THEN RunStart(line, lastRun) + line[lastRun][2]
                   ELSE start + 1
    IN  IF from > Length(line) \/ (pattern.char # "" /\ hits = {})
        THEN [found |-> FALSE, lastIndex |-> IF global THEN 0 ELSE lastIndex]
        ELSE IF pattern.char = ""
        THEN [found |-> TRUE, lastIndex |-> IF global THEN from ELSE lastIndex]
        ELSE [found |-> TRUE, lastIndex |-> IF global THEN end ELSE lastIndex]

(***************************************************************************)
(* Tab.searchInSnapshot and the browser_snapshot_search handler.           *)
(***************************************************************************)
\* the lines searched, in the order of the two forEach loops: span k
\* (1-based), line li (1-based) of span.split('\n')
RECURSIVE SearchedLines(_, _)
SearchedLines(spans, k) ==
    IF k > Len(spans) THEN <<>>
    ELSE LET lines == Split(spans[k])
         IN  [li \in 1..Len(lines) |-> [span |-> k, lineIndex |-> li, line |-> lines[li]]]
             \o SearchedLines(spans, k + 1)

\* the match pushed counting the global line from the 1-based in-span number
SearchMatchCountsFromOne(map, item) ==
    [spanIndex |-> item.span - 1,
     line |-> Trim(item.line),
     inSpanLineNumber |-> item.lineIndex,
     globalLineNumber |->
         IF item.span \in DOMAIN map
         THEN map[item.span].startLine + item.lineIndex
         ELSE (item.lineIndex - 1) + 1]

\* the match pushed for a searched line
SearchMatch(map, item) ==
    [spanIndex |-> item.span - 1,
     line |-> Trim(item.line),
     inSpanLineNumber |-> item.lineIndex,
     globalLineNumber |->
         IF item.span \in DOMAIN map
         THEN map[item.span].startLine + (item.lineIndex - 1)
         ELSE (item.lineIndex - 1) + 1]

\* the loops over the spans and their lines: the one RegExp object is tested
\* against every line in turn
RECURSIVE SearchLoop(_, _, _, _, _, _, _)
SearchLoop(map, pattern, flags, items, i, lastIndex, matches) ==
    IF i > Len(items) THEN matches
    ELSE LET t == RegExpTest(pattern, flags, lastIndex, items[i].line)
         IN  SearchLoop(map, pattern, flags, items, i + 1, t.lastIndex,
                        IF t.found THEN Append(matches, SearchMatch(map, items[i]))
                        ELSE matches)

\* the span index pushed once for every match instead of once for every span
SpanIndicesOfEveryMatch(spans, matches, k) ==
    [i \in DOMAIN matches |-> matches[i].spanIndex]

\* the indices of the spans with a match, in span order
RECURSIVE SpanIndicesOf(_, _, _)
SpanIndicesOf(spans, matches, k) ==
    IF k >= Len(spans) THEN <<>>
    ELSE (IF \E i \in DOMAIN matches : matches[i].spanIndex = k THEN <<k>> ELSE <<>>)
         \o SpanIndicesOf(spans, matches, k + 1)

\* flags || 'gi'
EffectiveFlags(flags) == IF Len(flags) = 0 THEN <<"g", "i">> ELSE flags

\* the body of Tab.searchInSnapshot over a span list and a line map, for a
\* pattern and flags that make a regular expression
SearchSpans(spans, map, pattern, flags) ==
    LET matches == SearchLoop(map, pattern, EffectiveFlags(flags),
                              SearchedLines(spans, 1), 1, 0, <<>>)
    IN  [spanIndices |-> SpanIndicesOf(spans, matches, 0), matches |-> matches]

\* Tab.searchInSnapshot
searchInSnapshot(pattern, flags) ==
    SearchSpans(snapshotSpans, spanToGlobalLineMap, pattern, flags)

\* the span number snapshotSearch.handle prints for a match: the index of the
\* match's span plus one
ReportedSpanNumber(spanIndex) == spanIndex + 1

\* snapshotSearch.handle without try and catch: the SyntaxError leaves the
\* handler
SearchInSnapshotUncaught ==
    \E pattern \in SearchPatterns, flags \in SearchFlags :
        /\ Idle
        /\ last' = IF RegExpThrows(pattern, EffectiveFlags(flags))
                   THEN [op |-> "searchInSnapshot", pattern |-> pattern, flags |-> flags,
                         reply |-> "SyntaxError thrown", spanIndices |-> <<>>,
                         matches |-> <<>>]
                   ELSE LET r == searchInSnapshot(pattern, flags)
                        IN  [op |-> "searchInSnapshot", pattern |-> pattern, flags |-> flags,
                             reply |-> IF Len(r.spanIndices) = 0 THEN "No matches found"
                                       ELSE "Found",
                             spanIndices |-> r.spanIndices, matches |-> r.matches]
        /\ races' = LiveCalls
        /\ UNCHANGED <<snapshotVars, snapshotSpanSize, modalStates, nextModal, closed>>

\* snapshotSearch.handle: the search inside try, the error message in catch
SearchInSnapshot ==
    \E pattern \in SearchPatterns, flags \in SearchFlags :
        /\ Idle
        /\ last' = IF RegExpThrows(pattern, EffectiveFlags(flags))
                   THEN [op |-> "searchInSnapshot", pattern |-> pattern, flags |-> flags,
                         reply |-> "Error searching", spanIndices |-> <<>>, matches |-> <<>>]
                   ELSE LET r == searchInSnapshot(pattern, flags)
                        IN  [op |-> "searchInSnapshot", pattern |-> pattern, flags |-> flags,
                             reply |-> IF Len(r.spanIndices) = 0 THEN "No matches found"
                                       ELSE "Found",
                             spanIndices |-> r.spanIndices, matches |-> r.matches]
        /\ races' = LiveCalls
        /\ UNCHANGED <<snapshotVars, snapshotSpanSize, modalStates, nextModal, closed>>

(***************************************************************************)
(* Tab.navigateToLine and the browser_snapshot_navigate_to_line handler.   *)
(* The texts it builds are kept as their parts: a line of the content is   *)
(* its marker, its line number and the line; lineInfo is the message       *)
(* chosen and the numbers put into it.                                     *)
(***************************************************************************)
\* the line numbers asked for
RequestedLines == 0..(MaxLines + 1)

\* the context sizes asked for; the handler passes none when the caller gave
\* none, and the parameter then takes its default
RequestedContextLines == {0, 1, DefaultContextLines}

\* the 0-based indices of the spans whose line range overlaps [startLine,
\* endLine] (0-based), in span order
RECURSIVE InvolvedSpans(_, _, _)
InvolvedSpans(spanIndex, startLine, endLine) ==
    IF spanIndex >= Len(spanToGlobalLineMap) THEN <<>>
    ELSE LET spanRange == spanToGlobalLineMap[spanIndex + 1]
         IN  (IF spanRange.startLine - 1 <= endLine /\ spanRange.endLine - 1 >= startLine
              THEN <<spanIndex>> ELSE <<>>)
             \o InvolvedSpans(spanIndex + 1, startLine, endLine)

\* Tab.navigateToLine
navigateToLine(globalLineNumber, contextLines) ==
    LET targetLineIndex == globalLineNumber - 1
        startLine == Max(0, targetLineIndex - contextLines)
        endLine   == Min(Len(globalLines) - 1, targetLineIndex + contextLines)
        involved  == InvolvedSpans(0, startLine, endLine)
    IN  IF Len(globalLines) = 0
        THEN [success |-> FALSE, content |-> <<>>,
              lineInfo |-> [message |-> "No snapshot available"]]
        ELSE IF targetLineIndex < 0 \/ targetLineIndex >= Len(globalLines)
        THEN [success |-> FALSE, content |-> <<>>,
              lineInfo |-> [message |-> "out of range", line |-> globalLineNumber,
                            lines |-> Len(globalLines)]]
        ELSE [success |-> TRUE,
              content |-> [k \in 1..(endLine - startLine + 1) |->
                               [marker |-> IF startLine + k - 1 = targetLineIndex
                                           THEN ">>> " ELSE "    ",
                                lineNumber |-> startLine + k,
                                line |-> globalLines[startLine + k]]],
              lineInfo |-> [message |-> "Showing lines",
                            from |-> startLine + 1, to |-> endLine + 1,
                            contextLines |-> contextLines, line |-> globalLineNumber,
                            spans |-> [k \in DOMAIN involved |-> involved[k] + 1]]]

\* a line lookup that also moves the cursor to the span holding the line
NavigateToLineMovesCursor ==
    \E g \in RequestedLines, c \in RequestedContextLines :
        LET r     == navigateToLine(g, c)
            spans == {k \in DOMAIN spanToGlobalLineMap :
                         /\ spanToGlobalLineMap[k].startLine <= g
                         /\ g <= spanToGlobalLineMap[k].endLine}
        IN  /\ Idle
            /\ last' = [op |-> "navigateToLine", arg |-> g, contextLines |-> c,
                        success |-> r.success, content |-> r.content,
                        lineInfo |-> r.lineInfo]
            /\ races' = LiveCalls
            /\ currentSpanIndex' = IF r.success /\ spans # {}
                                   THEN (CHOOSE k \in spans : TRUE) - 1
                                   ELSE currentSpanIndex
            /\ UNCHANGED <<fullSnapshot, snapshotSpans, globalLines, spanToGlobalLineMap,
                           snapshotSpanSize, modalStates, nextModal, closed>>

\* snapshotNavigateToLine.handle
NavigateToLine ==
    \E g \in RequestedLines, c \in RequestedContextLines :
        LET r == navigateToLine(g, c)
        IN  /\ Idle
            /\ last' = [op |-> "navigateToLine", arg |-> g, contextLines |-> c,
                        success |-> r.success, content |-> r.content,
                        lineInfo |-> r.lineInfo]
            /\ races' = LiveCalls
            /\ UNCHANGED <<snapshotVars, snapshotSpanSize, modalStates, nextModal, closed>>

Next ==
    \/ NavigateToSpan
    \/ NavigateToFirstSpan
    \/ NavigateToLastSpan
    \/ NavigateToNextSpan
    \/ NavigateToPrevSpan
    \/ SetSnapshotSpanSize
    \/ Navigate
    \/ OnClose
    \/ SetModalState
    \/ ClearModalState
    \/ CaptureSnapshot
    \/ WaitForCompletion
    \/ SnapshotResolved
    \/ TitleResolved
    \/ CompletionResolved
    \/ ActionRejected

Spec == Init /\ [][Next]_vars

\* the tab with the searches and line lookups of its caller, on a page that
\* raises no modal state and whose captures run to their end
QueryNext ==
    \/ NavigateToSpan
    \/ NavigateToFirstSpan
    \/ NavigateToLastSpan
    \/ NavigateToNextSpan
    \/ NavigateToPrevSpan
    \/ SetSnapshotSpanSize
    \/ Navigate
    \/ OnClose
    \/ CaptureSnapshot
    \/ SnapshotResolved
    \/ TitleResolved
    \/ SearchInSnapshot
    \/ NavigateToLine

QuerySpec == Init /\ [][QueryNext]_vars

\* the snapshot operations and the queries on a page that raises modal states
FrameNext ==
    \/ QueryNext
    \/ SetModalState
    \/ ClearModalState

FrameSpec == Init /\ [][FrameNext]_vars

(***************************************************************************)
(* The splitter on its own: a tab under any of the span sizes, storing text *)
(* after text.  The texts are built from a wider choice of lines than the   *)
(* captures above: a one-character line and the empty line as well.         *)
(***************************************************************************)
B1 == Rep("b", 1)

SplitVocabulary == Vocabulary \cup {B1, <<>>}

RECURSIVE LineSeqsOver(_, _)
LineSeqsOver(words, n) ==
    IF n = 0 THEN {<<>>}
    ELSE LET shorter == LineSeqsOver(words, n - 1)
         IN  shorter \cup {Append(ls, l) : ls \in {x \in shorter : Len(x) = n - 1},
                                            l \in words}

SplitTexts == {Join(ls) : ls \in LineSeqsOver(SplitVocabulary, MaxLines)}

\* a tab as constructed, under one of the span sizes a tab can have
SplitInit ==
    /\ fullSnapshot = <<>>
    /\ snapshotSpans = <<>>
    /\ currentSpanIndex = 0
    /\ snapshotSpanSize \in SpanSizes
    /\ globalLines = <<>>
    /\ spanToGlobalLineMap = <<>>
    /\ modalStates = <<>>
    /\ nextModal = 1
    /\ races = <<>>
    /\ closed = FALSE
    /\ last = [op |-> "new"]

\* the capture action storing a text that differs from the one held: the
\* text is split and the cursor reconciled
SplitSnapshotIntoSpans ==
    \E text \in SplitTexts :
        LET split == splitSnapshotIntoSpans(text, snapshotSpanSize)
        IN  /\ fullSnapshot # text
            /\ fullSnapshot' = text
            /\ snapshotSpans' = split.spans
            /\ globalLines' = split.globalLines
            /\ spanToGlobalLineMap' = split.map
            /\ currentSpanIndex' = reconcile(snapshotSpans, currentSpanIndex, split.spans)
            /\ last' = [op |-> "splitSnapshotIntoSpans"]
            /\ UNCHANGED <<snapshotSpanSize, modalStates, nextModal, races, closed>>

SplitNext == SplitSnapshotIntoSpans

SplitSpec == SplitInit /\ [][SplitNext]_vars

(***************************************************************************)
(* Properties.                                                             *)
(***************************************************************************)
InFlight == {"snapshot", "title", "running"}

ActionSteps == {"snapshotResolved", "titleResolved", "completionResolved", "actionRejected"}

Elems(q) == {q[i] : i \in DOMAIN q}

\* C1: the cursor index is never negative, and it is below the span count
\* whenever there are spans
C1_CursorInRange ==
    /\ currentSpanIndex >= 0
    /\ Len(snapshotSpans) > 0 => currentSpanIndex < Len(snapshotSpans)

\* navigateToSpan was asked for an index past the last of several spans
C1_Witness ==
    /\ last.op = "navigateToSpan"
    /\ Len(snapshotSpans) >= 2
    /\ last.arg >= Len(snapshotSpans)
    /\ currentSpanIndex = Len(snapshotSpans) - 1

\* C2: when captureSnapshot stores a text that differs from the previous one,
\* the cursor stays where it was if the span count is the same and every span
\* but the one at the old cursor is identical to its predecessor, and becomes 0
\* otherwise (no previous spans, another count, or another span differs)
C2_CursorPreservation ==
    [][(last'.op = "snapshotResolved" /\ last'.changed) =>
         IF /\ Len(snapshotSpans) > 0
            /\ Len(snapshotSpans') = Len(snapshotSpans)
            /\ \A i \in 1..Len(snapshotSpans) :
                   i # currentSpanIndex + 1 => snapshotSpans'[i] = snapshotSpans[i]
         THEN currentSpanIndex' = currentSpanIndex
         ELSE currentSpanIndex' = 0]_vars

\* a changed text has been stored and the cursor is still on a later span
C2_Witness ==
    /\ last.op = "snapshotResolved"
    /\ last.changed
    /\ currentSpanIndex > 0

\* C3: a modal state raised while a race is pending settles that race with
\* this modal state at once, and leaves its action where it was, in flight
C3_ModalWinsRace ==
    [][last'.op = "setModalState" =>
         \A c \in DOMAIN races :
             races[c].outcome = "pending" =>
                 /\ races'[c].outcome = "modal"
                 /\ races'[c].modal = last'.arg
                 /\ races'[c].pc = races[c].pc
                 /\ races'[c].pc \in InFlight]_vars

\* a race returned a modal state and its action has since run to its end
C3_Witness ==
    \E c \in DOMAIN races :
        /\ races[c].outcome = "modal"
        /\ races[c].modal # 0
        /\ races[c].pc = "done"

\* C4: with a modal state queued, waitForCompletion's race returns the oldest
\* queued modal state at once and captureSnapshot returns the modal report
\* alone, leaving the snapshot state as it was; in both the action is not
\* started, and no later step of an action belongs to a call not started
C4_QueuedModalShortCircuits ==
    [][/\ (last'.op = "waitForCompletion" /\ Len(modalStates) > 0) =>
             /\ races'[last'.call].outcome = "modal"
             /\ races'[last'.call].modal = modalStates[1]
             /\ races'[last'.call].pc = "notStarted"
             /\ ~races'[last'.call].listener
       /\ (last'.op = "captureSnapshot" /\ Len(modalStates) > 0) =>
             /\ races'[last'.call].outcome = "norace"
             /\ races'[last'.call].returned = <<"### Modal state">>
             /\ races'[last'.call].pc = "notStarted"
             /\ ~races'[last'.call].listener
             /\ UNCHANGED snapshotVars
       /\ last'.op \in ActionSteps =>
             /\ races[last'.call].pc \in InFlight
             /\ \A c \in DOMAIN races :
                    races[c].pc = "notStarted" => races'[c] = races[c]]_vars

\* waitForCompletion was called with two modal states queued
C4_Witness ==
    /\ last.op = "waitForCompletion"
    /\ Len(modalStates) = 2
    /\ races[last.call].outcome = "modal"
    /\ races[last.call].modal = modalStates[1]

\* C5: when the action ends while its race is pending, the race returns
\* undefined and its listener is off the tab; a modal state raised afterwards
\* changes nothing of a race that returned undefined
C5_ActionWinsRace ==
    [][/\ last'.op \in {"titleResolved", "completionResolved"} =>
             (races[last'.call].outcome = "pending" =>
                  /\ races'[last'.call].outcome = "undefined"
                  /\ races'[last'.call].modal = 0
                  /\ ~races'[last'.call].listener)
       /\ last'.op = "setModalState" =>
             \A c \in DOMAIN races :
                 races[c].outcome = "undefined" => races'[c] = races[c]]_vars

\* a modal state was raised after a race had returned undefined
C5_Witness ==
    /\ last.op = "setModalState"
    /\ \E c \in DOMAIN races : races[c].outcome = "undefined" /\ races[c].pc = "done"

\* q without m, the other entries in the order they have in q
Without(q, m, r) ==
    /\ Elems(r) = Elems(q) \ {m}
    /\ Len(r) = Cardinality(Elems(r))
    /\ \A i, j \in DOMAIN r :
           i < j => \E k, l \in DOMAIN q : k < l /\ q[k] = r[i] /\ q[l] = r[j]

C7_CaptureLeavesASpan ==
    (last.op = "titleResolved" /\ races[last.call].outcome = "undefined") =>
        Len(snapshotSpans) >= 1

\* the index navigateToSpan(index) must end on, with n spans
Clamped(index, n) == IF index < 0 THEN 0 ELSE IF index > n - 1 THEN n - 1 ELSE index

\* C8: with at least one span, navigateToSpan(i) succeeds for every i: the
\* cursor is i clamped into [0, spanCount-1], and the result holds that index,
\* the span stored there and the span count
C8_NavigateToSpanClamps ==
    (last.op = "navigateToSpan" /\ Len(snapshotSpans) > 0) =>
        /\ last.success
        /\ last.spanIndex = Clamped(last.arg, Len(snapshotSpans))
        /\ last.span = snapshotSpans[Clamped(last.arg, Len(snapshotSpans)) + 1]
        /\ last.totalSpans = Len(snapshotSpans)
        /\ currentSpanIndex = last.spanIndex

\* navigateToSpan was asked for a negative index while on a later span
C8_Witness ==
    /\ last.op = "navigateToSpan"
    /\ last.arg < 0
    /\ last.success
    /\ Len(snapshotSpans) >= 2

\* C9: navigateToNextSpan on the last span and navigateToPrevSpan on the first
\* span succeed with that span and leave the cursor where it is
C9_BoundaryNoOps ==
    [][/\ (/\ last'.op = "navigateToNextSpan"
           /\ Len(snapshotSpans) > 0
           /\ currentSpanIndex = Len(snapshotSpans) - 1) =>
             /\ currentSpanIndex' = currentSpanIndex
             /\ last'.success
             /\ last'.spanIndex = currentSpanIndex
             /\ last'.span = snapshotSpans[Len(snapshotSpans)]
       /\ (/\ last'.op = "navigateToPrevSpan"
           /\ Len(snapshotSpans) > 0
           /\ currentSpanIndex = 0) =>
             /\ currentSpanIndex' = currentSpanIndex
             /\ last'.success
             /\ last'.spanIndex = 0
             /\ last'.span = snapshotSpans[1]]_vars

\* navigateToNextSpan was called on the last of several spans
C9_Witness ==
    /\ last.op = "navigateToNextSpan"
    /\ Len(snapshotSpans) >= 2
    /\ last.arg = Len(snapshotSpans)
    /\ currentSpanIndex = Len(snapshotSpans) - 1

\* the ranges of map partition the lines 1..lineCount contiguously
PartitionsLines(map, lineCount) ==
    /\ Len(map) >= 1
    /\ map[1].startLine = 1
    /\ map[Len(map)].endLine = lineCount
    /\ \A i \in 1..(Len(map) - 1) : map[i + 1].startLine = map[i].endLine + 1
    /\ \A l \in 1..lineCount :
           Cardinality({i \in DOMAIN map : map[i].startLine <= l /\ l <= map[i].endLine}) = 1

\* C10: the recorded span line ranges partition [1, lineCount(T)] of the
\* captured text T: the first starts at line 1, the last ends at the last
\* line, and every line lies in exactly one range (stated for the span sizes
\* setSnapshotSpanSize lets through, the sentinel and the budgets from 100 up)
C10_LineRangesPartition ==
    (/\ Len(snapshotSpans) > 0
     /\ (snapshotSpanSize = WholeSnapshot \/ snapshotSpanSize >= MinSpanSize)) =>
        PartitionsLines(spanToGlobalLineMap, Len(Split(fullSnapshot)))

\* the lines of the captured text that span k (1-based) was built from
LinesOfSpan(k) ==
    IF k \in DOMAIN spanToGlobalLineMap
    THEN {l \in DOMAIN globalLines :
              spanToGlobalLineMap[k].startLine <= l /\ l <= spanToGlobalLineMap[k].endLine}
    ELSE {}

\* the lines of span k that were too long for the budget and were truncated
TruncatedLinesOfSpan(k) ==
    {l \in LinesOfSpan(k) : Length(globalLines[l]) + 1 > snapshotSpanSize}

C12_SpanSizeSentinelOrClamped ==
    snapshotSpanSize = WholeSnapshot \/ snapshotSpanSize >= MinSpanSize

\* C13: after setSnapshotSpanSize(-1) on a tab that holds a snapshot there is
\* exactly one span, it is the full text, and the line map is [{1, lineCount}]
C13_WholeSnapshotIsOneSpan ==
    (/\ last.op = "setSnapshotSpanSize"
     /\ last.arg = WholeSnapshot
     /\ Len(snapshotSpans) > 0) =>
        /\ snapshotSpans = <<fullSnapshot>>
        /\ spanToGlobalLineMap =
               <<[startLine |-> 1, endLine |-> Len(Split(fullSnapshot))]>>

\* the pattern matches the line, whatever was tested before
LineMatches(pattern, flags, line) ==
    RegExpTest(pattern, EffectiveFlags(flags), 0, line).found

\* C14: a search with a well-formed pattern records a match for exactly the
\* lines of the spans that the pattern matches, whatever matched on the lines
\* before, and lists exactly the spans that hold such a line
C14_SearchFindsEveryMatchingLine ==
    (last.op = "searchInSnapshot" /\ last.reply # "Error searching") =>
        LET items == SearchedLines(snapshotSpans, 1)
        IN  /\ \A i \in DOMAIN items :
                   LineMatches(last.pattern, last.flags, items[i].line) <=>
                       \E m \in DOMAIN last.matches :
                           /\ last.matches[m].spanIndex = items[i].span - 1
                           /\ last.matches[m].inSpanLineNumber = items[i].lineIndex
            /\ \A k \in DOMAIN snapshotSpans :
                   (\E i \in DOMAIN items :
                        /\ items[i].span = k
                        /\ LineMatches(last.pattern, last.flags, items[i].line)) <=>
                       (\E j \in DOMAIN last.spanIndices : last.spanIndices[j] = k - 1)

\* the content line navigateToLine marks as its target, if it marks exactly one
TargetOf(r) ==
    LET marked == {k \in DOMAIN r.content : r.content[k].marker = ">>> "}
    IN  IF Cardinality(marked) = 1
        THEN r.content[CHOOSE k \in marked : TRUE]
        ELSE [marker |-> "", lineNumber |-> 0, line |-> <<>>]

\* C15 as claimed: for every match of a search, globalLineNumber is the start
\* line of the match's span plus the in-span line index, lies inside that
\* span's recorded line range, and navigateToLine(globalLineNumber) succeeds
\* and marks that line as its target, the target line trimmed being the match
\* text
C15_MatchIsTheLineNavigatedTo ==
    (last.op = "searchInSnapshot") =>
        \A m \in DOMAIN last.matches :
            LET match == last.matches[m]
                k     == match.spanIndex + 1
                r     == navigateToLine(match.globalLineNumber, DefaultContextLines)
            IN  /\ k \in DOMAIN spanToGlobalLineMap
                /\ match.globalLineNumber =
                       spanToGlobalLineMap[k].startLine + (match.inSpanLineNumber - 1)
                /\ match.globalLineNumber <= spanToGlobalLineMap[k].endLine
                /\ r.success
                /\ TargetOf(r).lineNumber = match.globalLineNumber
                /\ Trim(TargetOf(r).line) = match.line

\* the text of a line of the captured text as a span holds it, trimmed
AsHeldInSpan(line) ==
    IF snapshotSpanSize # WholeSnapshot /\ Length(line) + 1 > snapshotSpanSize
    THEN Trim(LineToAdd(line, snapshotSpanSize))
    ELSE Trim(line)

\* C15 as amended: for every match of a search, globalLineNumber is the start
\* line of the match's span plus the in-span line index and lies inside the
\* span's line range (with no range recorded for the span it is the in-span
\* line number); navigateToLine(globalLineNumber) succeeds and marks exactly
\* that line as its target; and the match text is the target line trimmed,
\* or its truncated form if the line was too long for the span budget
C15_MatchIsTheLineOrItsTruncation ==
    (last.op = "searchInSnapshot") =>
        \A m \in DOMAIN last.matches :
            LET match == last.matches[m]
                k     == match.spanIndex + 1
                r     == navigateToLine(match.globalLineNumber, DefaultContextLines)
            IN  /\ IF k \in DOMAIN spanToGlobalLineMap
                   THEN /\ match.globalLineNumber =
                              spanToGlobalLineMap[k].startLine + (match.inSpanLineNumber - 1)
                        /\ match.globalLineNumber <= spanToGlobalLineMap[k].endLine
                   ELSE match.globalLineNumber = match.inSpanLineNumber
                /\ r.success
                /\ TargetOf(r).lineNumber = match.globalLineNumber
                /\ match.line = AsHeldInSpan(TargetOf(r).line)

\* a search matched a truncated line and a line of a later span
C15_Witness ==
    /\ last.op = "searchInSnapshot"
    /\ snapshotSpanSize = MinSpanSize
    /\ \E m \in DOMAIN last.matches :
           /\ last.matches[m].spanIndex >= 1
           /\ last.matches[m].globalLineNumber >= 2
    /\ \E m \in DOMAIN last.matches :
           /\ last.matches[m].globalLineNumber \in DOMAIN globalLines
           /\ Length(globalLines[last.matches[m].globalLineNumber]) + 1 > snapshotSpanSize

C17_NavigateToLineRange ==
    [][last'.op = "navigateToLine" =>
           LET lineCount == Len(Split(fullSnapshot))
               exists    == last.op = "titleResolved" \/ Len(globalLines) > 0
               g         == last'.arg
           IN  /\ (~exists \/ g < 1 \/ g > lineCount) =>
                       (~last'.success /\ last'.content = <<>>)
               /\ ~last'.success =>
                       last'.lineInfo.message =
                           IF Len(globalLines) = 0 THEN "No snapshot available"
                           ELSE "out of range"
               /\ (exists /\ g >= 1 /\ g <= lineCount) => last'.success]_vars

\* C18: searchInSnapshot and navigateToLine read only: whether they succeed
\* or fail, the text, the spans, the lines, the line map, the span size and
\* the cursor are the same after the call as before, and so is what
\* navigateToNextSpan and navigateToPrevSpan would do next
C18_QueriesAreReadOnly ==
    [][last'.op \in {"searchInSnapshot", "navigateToLine"} =>
           /\ UNCHANGED <<fullSnapshot, snapshotSpans, globalLines, spanToGlobalLineMap,
                          snapshotSpanSize, currentSpanIndex>>
           /\ navigateToSpan(currentSpanIndex + 1)' = navigateToSpan(currentSpanIndex + 1)
           /\ navigateToSpan(currentSpanIndex - 1)' = navigateToSpan(currentSpanIndex - 1)]_vars

\* a line was looked up, successfully, in a span other than the one the
\* cursor is on
C18_Witness ==
    /\ last.op = "navigateToLine"
    /\ last.success
    /\ Len(snapshotSpans) >= 2
    /\ \E k \in DOMAIN spanToGlobalLineMap :
           /\ k - 1 # currentSpanIndex
           /\ spanToGlobalLineMap[k].startLine <= last.arg
           /\ last.arg <= spanToGlobalLineMap[k].endLine

\* C19: navigate(url) and the close of the page each leave the text, the
\* spans, the lines and the line map empty and the cursor at 0; in that state
\* navigateToSpan (and so First, Last, Next and Prev) fails for every index
\* and navigateToLine reports that there is no snapshot; and a capture stored
\* on a tab holding no spans puts the cursor at span 0
C19_ResetIsWholesale ==
    [][/\ last'.op \in {"navigate", "close"} =>
           /\ fullSnapshot' = <<>>
           /\ snapshotSpans' = <<>>
           /\ globalLines' = <<>>
           /\ spanToGlobalLineMap' = <<>>
           /\ currentSpanIndex' = 0
           /\ \A i \in RequestedSpanIndices \cup {currentSpanIndex' + 1,
                                                   currentSpanIndex' - 1} :
                  ~navigateToSpan(i)'.success
           /\ \A g \in RequestedLines, c \in RequestedContextLines :
                  /\ ~navigateToLine(g, c)'.success
                  /\ navigateToLine(g, c)'.lineInfo.message = "No snapshot available"
       /\ (last'.op = "snapshotResolved" /\ Len(snapshotSpans) = 0) =>
           currentSpanIndex' = 0]_vars

\* navigate(url) has just emptied a tab whose span size had been changed
C19_Witness ==
    /\ last.op = "navigate"
    /\ Len(snapshotSpans) = 0
    /\ snapshotSpanSize = WholeSnapshot

\* C20: the span number reported for a line, by the search for a match and
\* by navigateToLine for a target line that lies with its context in one
\* span, when given to navigateToSpan as its index, leads to the span that
\* holds that line
C20_ReportedSpanLeadsToTheLine ==
    /\ last.op = "searchInSnapshot" =>
           \A k \in DOMAIN last.matches :
               LET match == last.matches[k]
                   r     == navigateToSpan(ReportedSpanNumber(match.spanIndex))
               IN  r.success /\ r.spanIndex = match.spanIndex
    /\ (last.op = "navigateToLine" /\ last.success /\ Len(last.lineInfo.spans) = 1) =>
           LET r == navigateToSpan(last.lineInfo.spans[1])
           IN  /\ r.success
               /\ r.spanIndex + 1 \in DOMAIN spanToGlobalLineMap
               /\ spanToGlobalLineMap[r.spanIndex + 1].startLine <= last.arg
               /\ last.arg <= spanToGlobalLineMap[r.spanIndex + 1].endLine

\* C21: in every line map the splitter produces the entries follow the
\* spans in order, each entry has 1 <= startLine <= endLine, and each entry
\* starts on the line after the one the entry before it ends on
C21_LineMapIsContiguous ==
    /\ Len(spanToGlobalLineMap) <= Len(snapshotSpans)
    /\ \A i \in DOMAIN spanToGlobalLineMap :
           /\ 1 <= spanToGlobalLineMap[i].startLine
           /\ spanToGlobalLineMap[i].startLine <= spanToGlobalLineMap[i].endLine
    /\ \A i \in 1..(Len(spanToGlobalLineMap) - 1) :
           spanToGlobalLineMap[i + 1].startLine = spanToGlobalLineMap[i].endLine + 1

\* a text was split into several spans under a numeric budget
C21_Witness ==
    /\ last.op = "splitSnapshotIntoSpans"
    /\ snapshotSpanSize # WholeSnapshot
    /\ Len(spanToGlobalLineMap) >= 2
    /\ Len(spanToGlobalLineMap) = Len(snapshotSpans)

\* C22: a line longer than the span budget is alone in its span: the line
\* range of the span that holds it, truncated, is that line and no other
\* (stated for the budgets setSnapshotSpanSize lets through)
C22_TruncatedLineIsAlone ==
    snapshotSpanSize >= MinSpanSize =>
        \A k \in DOMAIN spanToGlobalLineMap :
            \A l \in TruncatedLinesOfSpan(k) :
                /\ spanToGlobalLineMap[k].startLine = l
                /\ spanToGlobalLineMap[k].endLine = l

\* C23: in every search result spanIndices is strictly increasing, holds
\* exactly the span indices that occur in matches, and the matches are in
\* order of span index and, within a span, of in-span line number
C23_SearchResultIsOrdered ==
    (last.op = "searchInSnapshot" /\ last.reply # "Error searching") =>
        /\ \A i \in 1..(Len(last.spanIndices) - 1) :
               last.spanIndices[i] < last.spanIndices[i + 1]
        /\ {last.spanIndices[i] : i \in DOMAIN last.spanIndices} =
               {last.matches[i].spanIndex : i \in DOMAIN last.matches}
        /\ \A i \in 1..(Len(last.matches) - 1) :
               \/ last.matches[i].spanIndex < last.matches[i + 1].spanIndex
               \/ /\ last.matches[i].spanIndex = last.matches[i + 1].spanIndex
                  /\ last.matches[i].inSpanLineNumber < last.matches[i + 1].inSpanLineNumber

\* a search has matched lines of two spans
C23_Witness ==
    /\ last.op = "searchInSnapshot"
    /\ Len(last.spanIndices) >= 2
    /\ Len(last.matches) >= 2

\* C24: a successful navigateToLine(g, c) shows exactly the lines from
\* max(1, g - c) to min(lineCount, g + c), marks line g and no other as the
\* target, reports exactly the spans whose recorded line range meets that
\* window, and reports at least one span
C24_NavigateToLineWindow ==
    (last.op = "navigateToLine" /\ last.success) =>
        LET g  == last.arg
            lo == Max(1, g - last.contextLines)
            hi == Min(Len(globalLines), g + last.contextLines)
        IN  /\ Len(last.content) = hi - lo + 1
            /\ \A k \in DOMAIN last.content :
                   /\ last.content[k].lineNumber = lo + k - 1
                   /\ last.content[k].line = globalLines[lo + k - 1]
                   /\ (last.content[k].marker = ">>> ") = (lo + k - 1 = g)
            /\ {last.lineInfo.spans[k] : k \in DOMAIN last.lineInfo.spans} =
                   {k \in DOMAIN spanToGlobalLineMap :
                        /\ spanToGlobalLineMap[k].startLine <= hi
                        /\ spanToGlobalLineMap[k].endLine >= lo}
            /\ Len(last.lineInfo.spans) >= 1

\* C25: once the race has returned a modal state to captureSnapshot, the
\* capture action left behind does not change the stored text, spans, lines,
\* line map or cursor when the snapshot it was waiting for arrives
C25_AbandonedCaptureStoresNothing ==
    [][\A c \in DOMAIN races :
           (/\ races[c].kind = "capture"
            /\ races[c].outcome = "modal"
            /\ last'.op = "snapshotResolved"
            /\ last'.call = c) => UNCHANGED snapshotVars]_vars

\* C26: in every state the line map has as many entries as there are spans,
\* so that every span has a recorded line range (stated for the span sizes
\* setSnapshotSpanSize lets through, the sentinel and the budgets from 100 up)
C26_EverySpanHasARange ==
    (snapshotSpanSize = WholeSnapshot \/ snapshotSpanSize >= MinSpanSize) =>
        Len(spanToGlobalLineMap) = Len(snapshotSpans)

\* C27: every text captureSnapshot returns has a modal-state section or a
\* page-state section; so has the text returned when a modal state was raised
\* while the snapshot was being produced
C27_ReturnedTextHasASection ==
    \A c \in DOMAIN races :
        (races[c].kind = "capture" /\ races[c].outcome \in {"norace", "modal", "undefined"}) =>
            \E k \in DOMAIN races[c].returned :
                races[c].returned[k] \in {"### Modal state", "### Page state"}

\* C28: once a race has settled, whether its action finished, a modal state
\* came first or the action failed, the listener the race registered is no
\* longer attached to the tab
C28_SettledRaceLeavesNoListener ==
    \A c \in DOMAIN races :
        races[c].outcome \in {"modal", "undefined", "rejected"} => ~races[c].listener

\* C29: the reset done by navigate and by the close of the page, a capture
\* and its steps, setSnapshotSpanSize, the navigateTo operations and the
\* search leave the modal queue as it was, the queue losing an entry only in
\* clearModalState; and the reset leaves the span size as it was
C29_SpanOperationsKeepTheModalQueue ==
    [][/\ last'.op \notin {"setModalState", "clearModalState"} =>
           modalStates' = modalStates
       /\ Len(modalStates') < Len(modalStates) => last'.op = "clearModalState"
       /\ last'.op \in {"navigate", "close"} =>
           snapshotSpanSize' = snapshotSpanSize]_vars

\* navigate has reset a tab whose span size had been changed, with a modal
\* state in the queue
C29_Witness ==
    /\ last.op = "navigate"
    /\ Len(modalStates) >= 1
    /\ snapshotSpanSize = WholeSnapshot

====
